---------------------------- MODULE Spec2Model ----------------------------
(***************************************************************************)
(* bigflow: workflow definition and execution (src/bigflow/workflow.py).   *)
(*                                                                         *)
(* A caller writes down an argument (a list, a dict literal, or something  *)
(* that is neither), optionally builds a Definition from it, builds a      *)
(* Workflow, and then calls sequential_order, call_on_graph_nodes, run and *)
(* run_job on it any number of times.                                      *)
(*                                                                         *)
(* Graph nodes are compared and hashed only for equality (WorkflowJob by   *)
(* its name, a plain Job by object identity), and the visited/stack sets   *)
(* of the code are only tested for membership, never iterated.  Node       *)
(* values are therefore interchangeable, and the caller's literals are     *)
(* enumerated up to renaming: the first value written is 1, and a value    *)
(* not written before is the next unused number.                           *)
(***************************************************************************)
EXTENDS Integers, Sequences, FiniteSets, TLC

\* Bounds of the model.
MaxNodes == 3      \* distinct node names / job ids
MaxEdges == 4      \* dependency entries of a dict literal, all keys together
MaxJobs  == 3      \* elements of a list argument
MaxRunEdges == 2   \* as MaxEdges, for the workflows that are run

Nodes == 1..MaxNodes
None  == 0         \* Python's None, and "no node"

Range(s) == {s[i] : i \in DOMAIN s}

(***************************************************************************)
(* Python dict / OrderedDict: keys in insertion order; val is total over   *)
(* Nodes and is <<>> outside the keys so that equal dicts are equal values.*)
(***************************************************************************)
EmptyDict == [keys |-> <<>>, val |-> [n \in Nodes |-> <<>>]]

InDict(d, k) == k \in Range(d.keys)

\* d[k] = v: a key already present keeps its position, its value is replaced.
DictSet(d, k, v) ==
    [keys |-> IF InDict(d, k) THEN d.keys ELSE Append(d.keys, k),
     val  |-> [d.val EXCEPT ![k] = v]]

\* d[k].append(x)
DictAppend(d, k, x) == [d EXCEPT !.val[k] = Append(@, x)]

(***************************************************************************)
(* JobGraphValidator                                                       *)
(***************************************************************************)
RECURSIVE _validate_job(_, _, _)
RECURSIVE _validate_deps(_, _, _, _)

\* _validate_job with the visited test ahead of the stack test.
_validate_job_visited_first(job_graph, job, st) ==
    IF st.raised # None THEN st
    ELSE IF job \in st.visited THEN st
    ELSE IF job \in st.stack THEN [st EXCEPT !.raised = job]
    ELSE LET st1 == [st EXCEPT !.visited = @ \cup {job}] IN
         IF ~InDict(job_graph, job) THEN st1
         ELSE LET st2 == [st1 EXCEPT !.stack = @ \cup {job}]
                  st3 == _validate_deps(job_graph, job_graph.val[job], 1, st2)
              IN  IF st3.raised # None THEN st3
                  ELSE [st3 EXCEPT !.stack = @ \ {job}]

\* _validate_job without the stack.remove(job) after its loop.
_validate_job_keeps_stack(job_graph, job, st) ==
    IF st.raised # None THEN st
    ELSE IF job \in st.stack THEN [st EXCEPT !.raised = job]
    ELSE IF job \in st.visited THEN st
    ELSE LET st1 == [st EXCEPT !.visited = @ \cup {job}] IN
         IF ~InDict(job_graph, job) THEN st1
         ELSE _validate_deps(job_graph, job_graph.val[job], 1,
                             [st1 EXCEPT !.stack = @ \cup {job}])

\* st = [visited, stack, raised]; raised is the node named by InvalidJobGraph,
\* or None.  Once raised, the exception unwinds every enclosing call.
_validate_job(job_graph, job, st) ==
    IF st.raised # None THEN st
    ELSE IF job \in st.stack THEN [st EXCEPT !.raised = job]
    ELSE IF job \in st.visited THEN st
    ELSE LET st1 == [st EXCEPT !.visited = @ \cup {job}] IN
         IF ~InDict(job_graph, job) THEN st1
         ELSE LET st2 == [st1 EXCEPT !.stack = @ \cup {job}]
                  st3 == _validate_deps(job_graph, job_graph.val[job], 1, st2)
              IN  IF st3.raised # None THEN st3
                  ELSE [st3 EXCEPT !.stack = @ \ {job}]

\* for dep in self.job_graph[job]: self._validate_job(dep, visited, stack)
_validate_deps(job_graph, deps, i, st) ==
    IF i > Len(deps) \/ st.raised # None THEN st
    ELSE _validate_deps(job_graph, deps, i + 1,
                        _validate_job(job_graph, deps[i], st))

\* visited = set(); stack = set(); for job in self.job_graph: ...
_validate_if_not_cyclic(job_graph) ==
    _validate_deps(job_graph, job_graph.keys, 1,
                   [visited |-> {}, stack |-> {}, raised |-> None])

\* The node named by the InvalidJobGraph raised, None when validate returns.
validate(job_graph) == _validate_if_not_cyclic(job_graph).raised

(***************************************************************************)
(* JobOrderResolver                                                        *)
(***************************************************************************)
RECURSIVE _fill_parental_map(_, _, _)
RECURSIVE _fill_dependencies(_, _, _, _, _)

\* _fill_parental_map without the test for job in visited.
_fill_parental_map_revisits(job_graph, job, st) ==
    IF ~InDict(job_graph, job) THEN st
    ELSE LET pm1 == IF InDict(st.parental_map, job) THEN st.parental_map
                    ELSE DictSet(st.parental_map, job, <<>>)
             st1 == [parental_map |-> pm1, visited |-> st.visited \cup {job}]
         IN  _fill_dependencies(job_graph, job, job_graph.val[job], 1, st1)

\* st = [parental_map, visited]
_fill_parental_map(job_graph, job, st) ==
    IF ~InDict(job_graph, job) \/ job \in st.visited THEN st
    ELSE LET pm1 == IF InDict(st.parental_map, job) THEN st.parental_map
                    ELSE DictSet(st.parental_map, job, <<>>)
             st1 == [parental_map |-> pm1, visited |-> st.visited \cup {job}]
         IN  _fill_dependencies(job_graph, job, job_graph.val[job], 1, st1)

\* for dependency in self.job_graph[job]: ...
_fill_dependencies(job_graph, job, deps, i, st) ==
    IF i > Len(deps) THEN st
    ELSE LET dependency == deps[i]
             pm1 == IF InDict(st.parental_map, dependency) THEN st.parental_map
                    ELSE DictSet(st.parental_map, dependency, <<>>)
             pm2 == DictAppend(pm1, dependency, job)
             st2 == _fill_parental_map(job_graph, dependency,
                                       [st EXCEPT !.parental_map = pm2])
         IN  _fill_dependencies(job_graph, job, deps, i + 1, st2)

RECURSIVE _build_parental_map_from(_, _, _)
_build_parental_map_from(job_graph, i, st) ==
    IF i > Len(job_graph.keys) THEN st
    ELSE _build_parental_map_from(job_graph, i + 1,
             _fill_parental_map(job_graph, job_graph.keys[i], st))

_build_parental_map(job_graph) ==
    _build_parental_map_from(job_graph, 1,
        [parental_map |-> EmptyDict, visited |-> {}]).parental_map

RECURSIVE _call_on_graph_node_helper(_, _, _)
RECURSIVE _call_on_parents(_, _, _, _)

\* _call_on_graph_node_helper calling the consumer before the parents' calls.
_call_on_graph_node_helper_node_first(parental_map, job, st) ==
    IF job \in st.visited THEN st
    ELSE LET st1 == [visited |-> st.visited \cup {job},
                     calls |-> Append(st.calls,
                         [job |-> job, dependencies |-> parental_map.val[job]])]
         IN  _call_on_parents(parental_map, parental_map.val[job], 1, st1)

\* _call_on_graph_node_helper calling the consumer on a visited node again.
_call_on_graph_node_helper_revisit(parental_map, job, st) ==
    LET st1 == [st EXCEPT !.visited = @ \cup {job}]
        st2 == IF job \in st.visited THEN st1
               ELSE _call_on_parents(parental_map, parental_map.val[job], 1, st1)
    IN  [st2 EXCEPT !.calls =
            Append(@, [job |-> job, dependencies |-> parental_map.val[job]])]

\* st = [visited, calls]; calls is the sequence of consumer invocations made so
\* far, each [job, dependencies] as the consumer receives them.
_call_on_graph_node_helper(parental_map, job, st) ==
    IF job \in st.visited THEN st
    ELSE LET st1 == [st EXCEPT !.visited = @ \cup {job}]
             st2 == _call_on_parents(parental_map, parental_map.val[job], 1, st1)
         IN  [st2 EXCEPT !.calls =
                 Append(@, [job |-> job, dependencies |-> parental_map.val[job]])]

\* for parent in parental_map[job]: self._call_on_graph_node_helper(parent, ...)
_call_on_parents(parental_map, jobs, i, st) ==
    IF i > Len(jobs) THEN st
    ELSE _call_on_parents(parental_map, jobs, i + 1,
             _call_on_graph_node_helper(parental_map, jobs[i], st))

\* call_on_graph_nodes going on with the visited set the invocation before it
\* left behind.
new_visited_set_kept(left) == left

\* visited = set(): left is what the invocation before this one left behind in
\* its own visited set.
new_visited_set(left) == {}

\* One JobOrderResolver.call_on_graph_nodes call: [visited, calls] at its end.
_call_on_graph_nodes(parental_map, left) ==
    _call_on_parents(parental_map, parental_map.keys, 1,
                     [visited |-> new_visited_set(left), calls |-> <<>>])

\* The consumer invocations of one JobOrderResolver.call_on_graph_nodes call.
call_on_graph_nodes(parental_map, left) ==
    _call_on_graph_nodes(parental_map, left).calls

\* consumer = add_to_ordered_job: ordered_jobs.append(job)
find_sequential_run_order(parental_map, left) ==
    LET calls == call_on_graph_nodes(parental_map, left)
    IN  [i \in 1..Len(calls) |-> calls[i].job]

(***************************************************************************)
(* datetime: strptime / strftime / now.  Strings are sequences of one-      *)
(* character strings; a datetime is a record of its fields.                *)
(***************************************************************************)
Digits == <<"0", "1", "2", "3", "4", "5", "6", "7", "8", "9">>

IsDigit(c) == c \in Range(Digits)

DigitVal(c) == CHOOSE n \in 0..9 : Digits[n + 1] = c

\* The number of digits at s[i], s[i+1], ..., at most max of them.
RECURSIVE DigitRun(_, _, _)
DigitRun(s, i, max) ==
    IF max = 0 \/ i > Len(s) \/ ~IsDigit(s[i]) THEN 0
    ELSE 1 + DigitRun(s, i + 1, max - 1)

\* int(s[i : i + n])
RECURSIVE NumAt(_, _, _)
NumAt(s, i, n) ==
    IF n = 0 THEN 0 ELSE 10 * NumAt(s, i, n - 1) + DigitVal(s[i + n - 1])

RECURSIVE SpaceRun(_, _)
SpaceRun(s, i) == IF i > Len(s) \/ s[i] # " " THEN 0 ELSE 1 + SpaceRun(s, i + 1)

IsLeap(y) == (y % 4 = 0 /\ y % 100 # 0) \/ y % 400 = 0

DaysInMonth(y, m) ==
    IF m = 2 THEN (IF IsLeap(y) THEN 29 ELSE 28)
    ELSE IF m \in {4, 6, 9, 11} THEN 30 ELSE 31

\* What the directive's regular expression of _strptime admits.
FieldRange(f) ==
    CASE f = "%m" -> 1..12
      [] f = "%d" -> 1..31
      [] f = "%H" -> 0..23
      [] f = "%M" -> 0..59
      [] f = "%S" -> 0..61

FieldName(f) ==
    CASE f = "%Y" -> "year"  [] f = "%m" -> "month"  [] f = "%d" -> "day"
      [] f = "%H" -> "hour"  [] f = "%M" -> "minute" [] f = "%S" -> "second"

NoMatch == [ok |-> FALSE]

\* _strptime's regular-expression match of s[i..] against format[j..].  Every
\* numeric directive is followed by a non-digit literal or by the end of the
\* format, so a directive can only match the whole run of digits it starts at;
\* text left over after the format is "unconverted data remains".
RECURSIVE _strptime_match(_, _, _, _, _)
_strptime_match(s, i, format, j, acc) ==
    IF j > Len(format)
    THEN IF i = Len(s) + 1 THEN [ok |-> TRUE, value |-> acc] ELSE NoMatch
    ELSE LET f == format[j] IN
         IF f = "%Y"
         THEN IF DigitRun(s, i, 4) = 4
              THEN _strptime_match(s, i + 4, format, j + 1,
                                   [acc EXCEPT !.year = NumAt(s, i, 4)])
              ELSE NoMatch
         ELSE IF f \in {"%m", "%d", "%H", "%M", "%S"}
         THEN LET n == DigitRun(s, i, 2)
                  v == NumAt(s, i, n)
              IN  IF n >= 1 /\ v \in FieldRange(f)
                     /\ ~(f \in {"%m", "%d"} /\ n = 1 /\ v = 0)
                  THEN _strptime_match(s, i + n, format, j + 1,
                                       [acc EXCEPT ![FieldName(f)] = v])
                  ELSE IF f = "%d" /\ i + 1 <= Len(s) /\ s[i] = " "
                          /\ IsDigit(s[i + 1]) /\ s[i + 1] # "0"
                          /\ DigitRun(s, i + 1, 2) = 1
                  THEN _strptime_match(s, i + 2, format, j + 1,
                                       [acc EXCEPT !.day = DigitVal(s[i + 1])])
                  ELSE NoMatch
         ELSE IF f = " "
         THEN IF SpaceRun(s, i) >= 1
              THEN _strptime_match(s, i + SpaceRun(s, i), format, j + 1, acc)
              ELSE NoMatch
         ELSE IF i <= Len(s) /\ s[i] = f
              THEN _strptime_match(s, i + 1, format, j + 1, acc)
              ELSE NoMatch

\* dt.datetime.strptime(s, format): [ok, value]; ok = FALSE is ValueError
\* (no match, or field values datetime() rejects).
strptime(s, format) ==
    LET m == _strptime_match(s, 1, format, 1,
                 [year |-> 1900, month |-> 1, day |-> 1, hour |-> 0,
                  minute |-> 0, second |-> 0, microsecond |-> 0])
    IN  IF m.ok /\ m.value.year >= 1 /\ m.value.second <= 59
           /\ m.value.day <= DaysInMonth(m.value.year, m.value.month)
        THEN m ELSE NoMatch

\* "%02d" % n
Pad2(n) == <<Digits[((n \div 10) % 10) + 1], Digits[(n % 10) + 1]>>

\* dt.datetime.strftime(d, format), for years of four digits.
RECURSIVE strftime(_, _)
strftime(d, format) ==
    IF format = <<>> THEN <<>>
    ELSE LET f == Head(format)
             out == IF f = "%Y"
                    THEN Pad2(d.year \div 100) \o Pad2(d.year % 100)
                    ELSE IF f \in {"%m", "%d", "%H", "%M", "%S"}
                    THEN Pad2(d[FieldName(f)])
                    ELSE <<f>>
         IN  out \o strftime(d, Tail(format))

\* Workflow.RUNTIME_FORMATS
RUNTIME_FORMATS ==
    << <<"%Y", "-", "%m", "-", "%d", " ", "%H", ":", "%M", ":", "%S">>,
       <<"%Y", "-", "%m", "-", "%d">> >>

\* Workflow._parse_runtime_str: [ok, value], or [ok |-> FALSE, error].  The
\* final raise formats the undefined name rt, so what is raised is NameError.
RECURSIVE _parse_runtime_str_from(_, _)
_parse_runtime_str_from(runtime, k) ==
    IF k > Len(RUNTIME_FORMATS) THEN [ok |-> FALSE, error |-> "NameError"]
    ELSE LET r == strptime(runtime, RUNTIME_FORMATS[k])
         IN  IF r.ok THEN r ELSE _parse_runtime_str_from(runtime, k + 1)

\* _parse_runtime_str giving midnight of 1900-01-01 for a string that matches
\* no format, instead of raising.
_parse_runtime_str_default(runtime) ==
    LET r == _parse_runtime_str_from(runtime, 1)
    IN  IF r.ok THEN r
        ELSE [ok |-> TRUE,
              value |-> [year |-> 1900, month |-> 1, day |-> 1, hour |-> 0,
                         minute |-> 0, second |-> 0, microsecond |-> 0]]

_parse_runtime_str(runtime) == _parse_runtime_str_from(runtime, 1)

(***************************************************************************)
(* State                                                                   *)
(***************************************************************************)
VARIABLES
    pc,           \* "input", "definition", "ready", "run", "done", "failed"
    arg,          \* the argument the caller has written down so far
    definition,   \* the Definition built (job_graph, parental_map, its nodes)
    op,           \* the last operation called: its name and arguments
    context,      \* the JobContext the operation built
    order,        \* the list Workflow.run iterates over
    idx,          \* position of run's for loop in order
    log,          \* the execute(context) calls of the operation, in order
    returned,     \* what sequential_order returned
    calls,        \* the consumer invocations of call_on_graph_nodes
    asked,        \* what each job handed to _execute_job turned out to be
    error,        \* the exception the last constructor/operation raised
    visited,      \* the visited set the last call_on_graph_nodes call ended with
    first,        \* what the first sequential_order call on the Workflow returned
    start,        \* the last start-time helper call: its arguments and result
    build         \* BuildCommand: its options, and the steps its run has made

vars == <<pc, arg, definition, op, context, order, idx, log, returned, calls, asked, error,
          visited, first, start, build>>

NoError == [type |-> "", job |-> None]

Raise(type, job) == [type |-> type, job |-> job]

ZeroDatetime ==
    [year |-> 0, month |-> 0, day |-> 0, hour |-> 0, minute |-> 0,
     second |-> 0, microsecond |-> 0]

NoContext == [id |-> 0, runtime |-> ZeroDatetime, runtime_as_str |-> <<>>]

NoArg == [type |-> "", elems |-> "", list |-> <<>>, dict |-> EmptyDict, via |-> ""]

NoDefinition ==
    [job_graph |-> EmptyDict, parental_map |-> EmptyDict, node_type |-> "",
     wrapped |-> [n \in Nodes |-> [type |-> "", id |-> None]]]

NoOp == [name |-> "", job_id |-> None,
         runtime |-> [kind |-> "", str |-> <<>>, datetime |-> ZeroDatetime],
         left |-> {}]

NoFirst == [called |-> FALSE, order |-> <<>>]

NoTime == [seconds |-> 0, microsecond |-> 0]

NoStart == [called |-> "", start_time |-> NoTime, utcoffset |-> 0, result |-> NoTime]

NoBuild ==
    [pc |-> "", validate_project_setup |-> FALSE, build_package |-> FALSE,
     build_dags |-> FALSE, build_image |-> FALSE, steps |-> <<>>, error |-> ""]

(***************************************************************************)
(* Definition                                                              *)
(***************************************************************************)
RECURSIVE _convert_list_from(_, _, _)
_convert_list_from(job_list, i, graph_as_dict) ==
    IF i > Len(job_list) THEN graph_as_dict
    ELSE _convert_list_from(job_list, i + 1,
             DictSet(graph_as_dict, job_list[i - 1], <<job_list[i]>>))

\* _convert_list_to_graph without the branch for a list of one element.
_convert_list_to_graph_no_single(job_list) ==
    _convert_list_from(job_list, 2, EmptyDict)

\* Definition._convert_list_to_graph
_convert_list_to_graph(job_list) ==
    IF Len(job_list) = 1 THEN DictSet(EmptyDict, job_list[1], <<>>)
    ELSE _convert_list_from(job_list, 2, EmptyDict)

\* Definition._build_graph: [job_graph, error].  A dict's keys and values are
\* already written by node name here (_map_to_workflow_job names a plain job
\* by its id), so the comprehension copies it.
_build_graph(jobs) ==
    IF jobs.type \notin {"list", "dict"}
    THEN [job_graph |-> EmptyDict,
          error |-> Raise("ValueError: Job graph has to be dict or list", None)]
    ELSE LET job_graph == IF jobs.type = "list"
                          THEN _convert_list_to_graph(jobs.list)
                          ELSE jobs.dict
             cyclic == validate(job_graph)
         IN  [job_graph |-> job_graph,
              error |-> IF cyclic # None THEN Raise("InvalidJobGraph", cyclic)
                        ELSE NoError]

\* The type of the graph's nodes: Definition wraps a dict's plain jobs into
\* WorkflowJobs and leaves the elements of a list as they are.
NodeType(jobs) ==
    IF jobs.type = "list" THEN jobs.elems ELSE "WorkflowJob"

\* Definition(jobs): [definition, error]; wrapped is node |-> its .job.
Definition(jobs, wrapped) ==
    LET g == _build_graph(jobs) IN
    IF g.error # NoError THEN [definition |-> NoDefinition, error |-> g.error]
    ELSE [definition |->
              [job_graph    |-> g.job_graph,
               parental_map |-> _build_parental_map(g.job_graph),
               node_type    |-> NodeType(jobs),
               wrapped      |-> wrapped],
          error |-> NoError]

\* The .job of each node when the caller hands Definition its own nodes: a
\* WorkflowJob named n wraps the job whose id is n.
OwnWrapped(jobs) ==
    [n \in Nodes |-> IF NodeType(jobs) = "WorkflowJob"
                     THEN [type |-> "Job", id |-> n]
                     ELSE [type |-> "", id |-> None]]

(***************************************************************************)
(* Workflow                                                                *)
(***************************************************************************)
\* Workflow._map_to_workflow_jobs: WorkflowJob(job, i) is named by its index
\* (counted from 1 here, None being 0).
_map_to_workflow_jobs(job_list) == [i \in 1..Len(job_list) |-> i]

\* _parse_definition handing a dict on to Definition as it does a list.
_parse_definition_dict_too(a, built) ==
    IF a.via = "Definition" THEN [definition |-> built, error |-> NoError]
    ELSE IF a.type = "list"
    THEN Definition([NoArg EXCEPT !.type = "list", !.elems = "WorkflowJob",
                                  !.list = _map_to_workflow_jobs(a.list)],
                    [n \in Nodes |-> IF n <= Len(a.list)
                                     THEN [type |-> a.elems, id |-> a.list[n]]
                                     ELSE [type |-> "", id |-> None]])
    ELSE IF a.type = "dict" THEN Definition(a, OwnWrapped(a))
    ELSE [definition |-> NoDefinition,
          error |-> Raise("ValueError: Invalid argument", None)]

\* Workflow._parse_definition: [definition, error]
_parse_definition(a, built) ==
    IF a.via # "Definition" /\ a.type = "list"
    THEN Definition([NoArg EXCEPT !.type = "list", !.elems = "WorkflowJob",
                                  !.list = _map_to_workflow_jobs(a.list)],
                    [n \in Nodes |-> IF n <= Len(a.list)
                                     THEN [type |-> a.elems, id |-> a.list[n]]
                                     ELSE [type |-> "", id |-> None]])
    ELSE IF a.via = "Definition"
    THEN [definition |-> built, error |-> NoError]
    ELSE [definition |-> NoDefinition,
          error |-> Raise("ValueError: Invalid argument", None)]

\* _make_job_context rendering runtime_as_str from the parsed runtime.
_make_job_context_rendered(runtime_raw, now, id) ==
    LET parsed == _parse_runtime_str(runtime_raw.str)
        runtime == IF runtime_raw.kind = "str" THEN parsed.value
                   ELSE IF runtime_raw.kind = "datetime"
                   THEN runtime_raw.datetime ELSE now
    IN  IF runtime_raw.kind = "str" /\ ~parsed.ok
        THEN [context |-> NoContext, error |-> Raise(parsed.error, None)]
        ELSE [context |-> [id |-> id, runtime |-> runtime,
                           runtime_as_str |-> strftime(runtime, RUNTIME_FORMATS[1])],
              error |-> NoError]

\* Workflow._make_job_context: [context, error]; now is what
\* dt.datetime.now() returns, id tells JobContext objects apart.
_make_job_context(runtime_raw, now, id) ==
    IF runtime_raw.kind = "str"
    THEN LET parsed == _parse_runtime_str(runtime_raw.str) IN
         IF parsed.ok
         THEN [context |-> [id |-> id, runtime |-> parsed.value,
                            runtime_as_str |-> runtime_raw.str],
               error |-> NoError]
         ELSE [context |-> NoContext, error |-> Raise(parsed.error, None)]
    ELSE LET runtime == IF runtime_raw.kind = "datetime"
                        THEN runtime_raw.datetime ELSE now
         IN  [context |-> [id |-> id, runtime |-> runtime,
                           runtime_as_str |-> strftime(runtime, RUNTIME_FORMATS[1])],
              error |-> NoError]

\* _execute_job falling back to the old api, job.run(context.runtime_as_str),
\* instead of raising.
_execute_job_fallback(job, ctx, has_execute, raises) ==
    IF has_execute
    THEN [executed |-> <<[job |-> job, context |-> ctx.id]>>,
          legacy_run |-> <<>>,
          error |-> IF raises THEN Raise("JobError", job) ELSE NoError]
    ELSE [executed |-> <<>>,
          legacy_run |-> <<[job |-> job, runtime |-> ctx.runtime_as_str]>>,
          error |-> NoError]

\* Workflow._execute_job(job, context): the execute calls it makes, the legacy
\* run calls it makes, and what it raises.  has_execute is hasattr(job,
\* 'execute'); raises is whether job.execute(context) raises.
_execute_job(job, ctx, has_execute, raises) ==
    IF has_execute
    THEN [executed |-> <<[job |-> job, context |-> ctx.id]>>,
          legacy_run |-> <<>>,
          error |-> IF raises THEN Raise("JobError", job) ELSE NoError]
    ELSE [executed |-> <<>>, legacy_run |-> <<>>,
          error |-> Raise("Exception: XXX", job)]

\* hasattr(job, 'execute') in _execute_job: class WorkflowJob defines run,
\* __hash__, __eq__ and __repr__ and no execute; a plain job has it or not.
hasattr_execute(type, job_has_execute) ==
    IF type = "WorkflowJob" THEN FALSE ELSE job_has_execute

\* Workflow.find_job: [job, error], job the node whose .job is returned.
RECURSIVE _find_job_from(_, _, _, _)

\* find_job's loop going on after a match, so that the last match is returned.
_find_job_from_last(def, jobs, i, job_id) ==
    IF i > Len(jobs) THEN [job |-> None, error |-> Raise("ValueError: Job not found", None)]
    ELSE IF def.node_type # "WorkflowJob" \/ def.wrapped[jobs[i]].type # "Job"
    THEN [job |-> None, error |-> Raise("AttributeError", jobs[i])]
    ELSE LET rest == _find_job_from(def, jobs, i + 1, job_id) IN
         IF def.wrapped[jobs[i]].id = job_id /\ rest.job = None
         THEN [job |-> jobs[i], error |-> NoError]
         ELSE rest

_find_job_from(def, jobs, i, job_id) ==
    IF i > Len(jobs) THEN [job |-> None, error |-> Raise("ValueError: Job not found", None)]
    ELSE IF def.node_type # "WorkflowJob" \/ def.wrapped[jobs[i]].type # "Job"
    THEN [job |-> None, error |-> Raise("AttributeError", jobs[i])]
    ELSE IF def.wrapped[jobs[i]].id = job_id
    THEN [job |-> jobs[i], error |-> NoError]
    ELSE _find_job_from(def, jobs, i + 1, job_id)

\* find_job returning the first job when none matches.
find_job_or_first(def, job_id, left) ==
    LET jobs == find_sequential_run_order(def.parental_map, left)
        found == _find_job_from(def, jobs, 1, job_id)
    IN  IF found.error.type = "ValueError: Job not found" /\ jobs # <<>>
        THEN [job |-> jobs[1], error |-> NoError]
        ELSE found

find_job(def, job_id, left) ==
    _find_job_from(def, find_sequential_run_order(def.parental_map, left), 1, job_id)

(***************************************************************************)
(* The caller's inputs                                                     *)
(***************************************************************************)
Min(a, b) == IF a <= b THEN a ELSE b

Used(a) ==
    Range(a.list) \cup Range(a.dict.keys)
        \cup UNION {Range(a.dict.val[k]) : k \in Nodes}

\* The values the caller may write next: one written before, or the next new one.
NextValues(a) == 1..Min(MaxNodes, Cardinality(Used(a)) + 1)

RECURSIVE SumLen(_, _)
SumLen(d, i) == IF i > Len(d.keys) THEN 0
                ELSE Len(d.val[d.keys[i]]) + SumLen(d, i + 1)

\* Sample dates and times of day, as text.
DateTexts ==
    { <<"2", "0", "2", "0", "-", "0", "6", "-", "2", "7">>,
      <<"2", "0", "2", "0", "-", "6", "-", "7">>,
      <<"2", "0", "2", "1", "-", "0", "2", "-", "2", "9">> }

TimeTexts ==
    { <<>>,
      <<" ", "1", "5", ":", "0", "0", ":", "0", "0">>,
      <<" ", "5", ":", "7", ":", "9">>,
      <<" ", " ", "2", "3", ":", "5", "9", ":", "5", "9">>,
      <<" ", "2", "4", ":", "0", "0", ":", "0", "0">>,
      <<" ", "1", "5", ":", "0", "0">>,
      <<"T", "1", "5", ":", "0", "0", ":", "0", "0">> }

Datetimes ==
    { [year |-> 2020, month |-> 6, day |-> 27, hour |-> 15, minute |-> 0,
       second |-> 0, microsecond |-> 0],
      [year |-> 2021, month |-> 12, day |-> 31, hour |-> 23, minute |-> 59,
       second |-> 59, microsecond |-> 999999],
      [year |-> 2024, month |-> 2, day |-> 29, hour |-> 0, minute |-> 0,
       second |-> 0, microsecond |-> 0] }

RuntimeNone == [NoOp.runtime EXCEPT !.kind = "None"]
RuntimeStr(s) == [NoOp.runtime EXCEPT !.kind = "str", !.str = s]
RuntimeDatetime(d) == [NoOp.runtime EXCEPT !.kind = "datetime", !.datetime = d]

\* The runtime arguments _make_job_context is called with.
Runtimes ==
    {RuntimeNone} \cup {RuntimeDatetime(d) : d \in Datetimes}
        \cup {RuntimeStr(d \o t) : d \in DateTexts, t \in TimeTexts}
        \cup {RuntimeStr(<<>>)}

\* The runtime arguments run and run_job are called with.
RunRuntimes ==
    { RuntimeNone,
      RuntimeStr(<<"2", "0", "2", "0", "-", "0", "6", "-", "2", "7">>),
      RuntimeStr(<<"2", "0", "2", "0", "-", "0", "6", "-", "2", "7",
                   " ", "1", "5", ":", "0", "0">>) }

\* What dt.datetime.now() may return.
Clock == {d \in Datetimes : d.year < 2024}

(***************************************************************************)
(* Actions                                                                 *)
(***************************************************************************)
\* runtime_raw or dt.datetime.now(): now() is called for None only.
Now(runtime) == IF runtime.kind = "None" THEN Clock ELSE {ZeroDatetime}

Init ==
    /\ pc = "input"
    /\ arg = NoArg
    /\ definition = NoDefinition
    /\ op = NoOp
    /\ context = NoContext
    /\ order = <<>>
    /\ idx = 0
    /\ log = <<>>
    /\ returned = <<>>
    /\ calls = <<>>
    /\ asked = <<>>
    /\ error = NoError
    /\ visited = {}
    /\ first = NoFirst
    /\ start = NoStart
    /\ build = NoBuild

\* The caller starts writing a list of plain jobs or of WorkflowJobs, a dict,
\* or passes something that is neither (nor a Definition).
StartArg(type, elems) ==
    /\ pc = "input" /\ arg.type = ""
    /\ arg' = [NoArg EXCEPT !.type = type, !.elems = elems]
    /\ UNCHANGED <<start, build, pc, definition, op, context, order, idx, log, returned, calls, asked, error,
                 visited, first>>

\* One more element of the list: a job with id v, or a WorkflowJob named v.
AppendJob(v) ==
    /\ pc = "input" /\ arg.type = "list"
    /\ Len(arg.list) < MaxJobs
    /\ arg' = [arg EXCEPT !.list = Append(@, v)]
    /\ UNCHANGED <<start, build, pc, definition, op, context, order, idx, log, returned, calls, asked, error,
                 visited, first>>

\* One more key of the dict literal.
AddKey(k) ==
    /\ pc = "input" /\ arg.type = "dict"
    /\ ~InDict(arg.dict, k)
    /\ arg' = [arg EXCEPT !.dict = DictSet(@, k, <<>>)]
    /\ UNCHANGED <<start, build, pc, definition, op, context, order, idx, log, returned, calls, asked, error,
                 visited, first>>

\* One more entry of the last key's sequence.
AddDep(v, max) ==
    /\ pc = "input" /\ arg.type = "dict"
    /\ arg.dict.keys # <<>>
    /\ SumLen(arg.dict, 1) < max
    /\ arg' = [arg EXCEPT !.dict =
                  DictAppend(@, arg.dict.keys[Len(arg.dict.keys)], v)]
    /\ UNCHANGED <<start, build, pc, definition, op, context, order, idx, log, returned, calls, asked, error,
                 visited, first>>

\* Definition(arg)
NewDefinition ==
    /\ pc = "input" /\ arg.type # ""
    /\ LET r == Definition(arg, OwnWrapped(arg)) IN
        /\ definition' = r.definition
        /\ error' = r.error
        /\ pc' = IF r.error = NoError THEN "definition" ELSE "failed"
    /\ arg' = [arg EXCEPT !.via = "Definition"]
    /\ op' = [NoOp EXCEPT !.name = "Definition"]
    /\ UNCHANGED <<start, build, context, order, idx, log, returned, calls, asked, visited, first>>

\* Workflow(workflow_id, arg), or Workflow(workflow_id, the Definition built)
NewWorkflow ==
    /\ \/ pc = "input" /\ arg.type # ""
       \/ pc = "definition"
    /\ LET r == _parse_definition(arg, definition) IN
           /\ definition' = r.definition
           /\ error' = r.error
           /\ pc' = IF r.error = NoError THEN "done" ELSE "failed"
    /\ op' = [NoOp EXCEPT !.name = "Workflow"]
    /\ UNCHANGED <<start, build, arg, context, order, idx, log, returned, calls, asked, visited, first>>

\* Workflow.build_sequential_order()
SequentialOrder ==
    /\ pc = "ready"
    /\ op' = [NoOp EXCEPT !.name = "sequential_order", !.left = visited]
    /\ returned' = find_sequential_run_order(definition.parental_map, visited)
    /\ visited' = _call_on_graph_nodes(definition.parental_map, visited).visited
    /\ first' = IF first.called THEN first
                ELSE [called |-> TRUE, order |-> returned']
    /\ context' = NoContext /\ order' = <<>> /\ idx' = 0 /\ log' = <<>>
    /\ calls' = <<>> /\ asked' = <<>> /\ error' = NoError
    /\ pc' = "done"
    /\ UNCHANGED <<start, build, arg, definition>>

\* Workflow.call_on_graph_nodes(consumer), the consumer recording its calls
CallOnGraphNodes ==
    /\ pc = "ready"
    /\ op' = [NoOp EXCEPT !.name = "call_on_graph_nodes", !.left = visited]
    /\ calls' = call_on_graph_nodes(definition.parental_map, visited)
    /\ visited' = _call_on_graph_nodes(definition.parental_map, visited).visited
    /\ context' = NoContext /\ order' = <<>> /\ idx' = 0 /\ log' = <<>>
    /\ returned' = <<>> /\ asked' = <<>> /\ error' = NoError
    /\ pc' = "done"
    /\ UNCHANGED <<start, build, arg, definition, first>>

\* Workflow._make_job_context(runtime)
MakeJobContext(runtime) ==
    /\ pc = "ready"
    /\ op' = [NoOp EXCEPT !.name = "_make_job_context", !.runtime = runtime]
    /\ \E now \in Now(runtime) :
        LET mk == _make_job_context(runtime, now, 1) IN
        /\ context' = mk.context
        /\ error' = mk.error
    /\ order' = <<>> /\ idx' = 0 /\ log' = <<>> /\ returned' = <<>> /\ calls' = <<>>
    /\ asked' = <<>>
    /\ pc' = "done"
    /\ UNCHANGED <<start, build, arg, definition, visited, first>>

\* Workflow.run(runtime), up to the first iteration of its loop
Run(runtime) ==
    /\ pc = "ready"
    /\ op' = [NoOp EXCEPT !.name = "run", !.runtime = runtime, !.left = visited]
    /\ \E now \in Now(runtime) :
        LET mk == _make_job_context(runtime, now, 1) IN
        /\ context' = mk.context
        /\ error' = mk.error
        /\ IF mk.error # NoError
           THEN pc' = "done" /\ order' = <<>> /\ idx' = 0 /\ visited' = visited
           ELSE /\ pc' = "run"
                /\ order' = find_sequential_run_order(definition.parental_map, visited)
                /\ visited' = _call_on_graph_nodes(definition.parental_map,
                                                    visited).visited
                /\ idx' = 1
    /\ log' = <<>> /\ returned' = <<>> /\ calls' = <<>> /\ asked' = <<>>
    /\ UNCHANGED <<start, build, arg, definition, first>>

\* run's loop going on to the next job after a job has raised.
ExecuteNext_goes_on(job_has_execute, raises) ==
    /\ pc = "run" /\ idx <= Len(order)
    /\ LET r == _execute_job(order[idx], context,
                    hasattr_execute(definition.node_type, job_has_execute), raises)
       IN  /\ log' = log \o r.executed
           /\ asked' = Append(asked, [has_execute |-> job_has_execute,
                                      raised |-> r.error.type = "JobError",
                                      handed |-> hasattr_execute(definition.node_type,
                                                                 job_has_execute),
                                      legacy_run |-> Len(r.legacy_run)])
           /\ error' = r.error
           /\ pc' = "run" /\ idx' = idx + 1
    /\ UNCHANGED <<start, build, arg, definition, op, context, order, returned, calls, visited, first>>

\* One iteration of run's loop: self._execute_job(job, context)
ExecuteNext(job_has_execute, raises) ==
    /\ pc = "run" /\ idx <= Len(order)
    /\ LET r == _execute_job(order[idx], context,
                    hasattr_execute(definition.node_type, job_has_execute), raises)
       IN  /\ log' = log \o r.executed
           /\ asked' = Append(asked, [has_execute |-> job_has_execute,
                                      raised |-> r.error.type = "JobError",
                                      handed |-> hasattr_execute(definition.node_type,
                                                                 job_has_execute),
                                      legacy_run |-> Len(r.legacy_run)])
           /\ error' = r.error
           /\ IF r.error # NoError
              THEN pc' = "done" /\ idx' = idx
              ELSE pc' = "run" /\ idx' = idx + 1
    /\ UNCHANGED <<start, build, arg, definition, op, context, order, returned, calls, visited, first>>

\* run's loop is exhausted: run returns
RunReturn ==
    /\ pc = "run" /\ idx > Len(order)
    /\ pc' = "done"
    /\ UNCHANGED <<start, build, arg, definition, op, context, order, idx, log, returned, calls, asked, error,
                 visited, first>>

\* Workflow.run_job(job_id, runtime)
RunJob(job_id, runtime, job_has_execute, raises) ==
    /\ pc = "ready"
    /\ op' = [NoOp EXCEPT !.name = "run_job", !.job_id = job_id, !.runtime = runtime,
                          !.left = visited]
    /\ \E now \in Now(runtime) :
        LET mk == _make_job_context(runtime, now, 1)
            found == find_job(definition, job_id, visited)
            r == _execute_job(found.job, mk.context,
                     hasattr_execute("Job", job_has_execute), raises)
        IN  /\ context' = mk.context
            /\ visited' = IF mk.error # NoError THEN visited
                          ELSE _call_on_graph_nodes(definition.parental_map,
                                                    visited).visited
            /\ IF mk.error # NoError
               THEN error' = mk.error /\ log' = <<>> /\ asked' = <<>>
               ELSE IF found.error # NoError
               THEN error' = found.error /\ log' = <<>> /\ asked' = <<>>
               ELSE /\ error' = r.error
                    /\ log' = r.executed
                    /\ asked' = <<[has_execute |-> job_has_execute,
                                   raised |-> r.error.type = "JobError",
                                   handed |-> hasattr_execute("Job", job_has_execute),
                                   legacy_run |-> Len(r.legacy_run)]>>
    /\ order' = <<>> /\ idx' = 0 /\ returned' = <<>> /\ calls' = <<>>
    /\ pc' = "done"
    /\ UNCHANGED <<start, build, arg, definition, first>>

\* The caller is done with what the operation returned or raised; the
\* Workflow is ready for the next call.
Discard ==
    /\ pc = "done"
    /\ pc' = "ready"
    /\ op' = NoOp /\ context' = NoContext /\ order' = <<>> /\ idx' = 0
    /\ log' = <<>> /\ returned' = <<>> /\ calls' = <<>> /\ asked' = <<>>
    /\ error' = NoError
    /\ UNCHANGED <<start, build, arg, definition, visited, first>>

\* Definition and Workflow construction and the graph traversals, over every
\* argument within the bounds.
Next ==
    \/ \E t \in {"list", "dict", "other"}, e \in {"Job", "WorkflowJob"} :
           (t = "list" \/ e = "Job") /\ StartArg(t, IF t = "list" THEN e ELSE "")
    \/ \E v \in NextValues(arg) : AppendJob(v)
    \/ \E k \in NextValues(arg) : AddKey(k)
    \/ \E v \in NextValues(arg) : AddDep(v, MaxEdges)
    \/ NewDefinition
    \/ NewWorkflow
    \/ SequentialOrder
    \/ CallOnGraphNodes
    \/ Discard

Spec == Init /\ [][Next]_vars

\* The operations of a Workflow, called in any order any number of times.
NextRun ==
    \/ \E t \in {"list", "dict"}, e \in {"Job", "WorkflowJob"} :
           (t = "list" \/ e = "Job") /\ StartArg(t, IF t = "list" THEN e ELSE "")
    \/ \E v \in NextValues(arg) : AppendJob(v)
    \/ \E k \in NextValues(arg) : AddKey(k)
    \/ \E v \in NextValues(arg) : AddDep(v, MaxRunEdges)
    \/ NewDefinition
    \/ NewWorkflow
    \/ SequentialOrder
    \/ CallOnGraphNodes
    \/ \E r \in RunRuntimes : Run(r)
    \/ \E h \in BOOLEAN, x \in BOOLEAN : ExecuteNext(h, x)
    \/ RunReturn
    \/ \E j \in Nodes, r \in RunRuntimes, h \in BOOLEAN, x \in BOOLEAN :
           RunJob(j, r, h, x)
    \/ Discard

SpecRun == Init /\ [][NextRun]_vars

\* The runtime argument, over every sample text and timestamp.
NextContext ==
    \/ \E e \in {"Job", "WorkflowJob"} : StartArg("list", e)
    \/ \E v \in NextValues(arg) : AppendJob(v)
    \/ NewWorkflow
    \/ \E r \in Runtimes : MakeJobContext(r)
    \/ \E r \in Runtimes : Run(r)
    \/ \E h \in BOOLEAN, x \in BOOLEAN : ExecuteNext(h, x)
    \/ RunReturn
    \/ \E j \in Nodes, r \in Runtimes, h \in BOOLEAN, x \in BOOLEAN :
           RunJob(j, r, h, x)
    \/ Discard

SpecContext == Init /\ [][NextContext]_vars

(***************************************************************************)
(* Start-time helpers                                                      *)
(***************************************************************************)
SecondsPerHour == 3600
SecondsPerDay == 86400

\* A dt.datetime is [seconds, microsecond]: whole seconds since a midnight,
\* and the microsecond field.  A dt.timedelta is whole seconds.

\* get_timezone_offset_seconds(): the seconds field of the local zone's
\* utcoffset timedelta.  A timedelta is kept as days, 0 <= seconds < 86400 and
\* microseconds, so a negative offset has days = -1 and seconds = 86400 + offset.
get_timezone_offset_seconds(utcoffset) == utcoffset % SecondsPerDay

\* hourly_start_time(start_time), the local zone being utcoffset seconds east
hourly_start_time(start_time, utcoffset) ==
    LET td == get_timezone_offset_seconds(utcoffset)
    IN  [seconds |-> start_time.seconds - td, microsecond |-> 0]

\* daily_start_time(start_time)
daily_start_time(start_time, utcoffset) ==
    LET td == 24 * SecondsPerHour
        replaced == start_time.seconds - (start_time.seconds % SecondsPerDay)
    IN  [seconds |-> replaced - td, microsecond |-> 0]

\* The start times the helpers are called with: 00:00:00, 00:00:01, 00:59:59,
\* 01:00:00, 15:00:00, 15:30:45, 23:59:59 of one day and 15:00:00 of the next.
StartTimes ==
    {[seconds |-> s, microsecond |-> u] :
        s \in {0, 1, 3599, 3600, 54000, 55845, 86399, 140400}, u \in {0, 999999}}

\* The local UTC offsets: -12:00, -05:00, 00:00, +01:00, +02:00, +05:30, +14:00.
UtcOffsets == {-43200, -18000, 0, 3600, 7200, 19800, 50400}

InitStartTime ==
    /\ pc = "input" /\ arg = NoArg /\ definition = NoDefinition /\ op = NoOp
    /\ context = NoContext /\ order = <<>> /\ idx = 0 /\ log = <<>>
    /\ returned = <<>> /\ calls = <<>> /\ asked = <<>> /\ error = NoError
    /\ visited = {} /\ first = NoFirst /\ build = NoBuild
    /\ \E t \in StartTimes, o \in UtcOffsets :
           start = [NoStart EXCEPT !.start_time = t, !.utcoffset = o]

HourlyStartTime ==
    /\ start.called = ""
    /\ start' = [start EXCEPT !.called = "hourly_start_time",
                              !.result = hourly_start_time(start.start_time,
                                                           start.utcoffset)]
    /\ UNCHANGED <<pc, arg, definition, op, context, order, idx, log, returned,
                   calls, asked, error, visited, first, build>>

DailyStartTime ==
    /\ start.called = ""
    /\ start' = [start EXCEPT !.called = "daily_start_time",
                              !.result = daily_start_time(start.start_time,
                                                          start.utcoffset)]
    /\ UNCHANGED <<pc, arg, definition, op, context, order, idx, log, returned,
                   calls, asked, error, visited, first, build>>

NextStartTime ==
    \/ HourlyStartTime
    \/ DailyStartTime

SpecStartTime == InitStartTime /\ [][NextStartTime]_vars

(***************************************************************************)
(* BuildCommand                                                            *)
(***************************************************************************)
\* should_run_whole_build answering yes whatever the options are.
should_run_whole_build_always(self) == TRUE

\* BuildCommand.should_run_whole_build
should_run_whole_build(self) ==
    ~(self.build_dags \/ self.build_package \/ self.build_image)

\* The calls BuildCommand.run makes after its validate_project_setup test when
\* none of them raises, in program order.
run_calls(self) ==
    <<"_valid_datetime">>
    \o (IF self.build_package \/ should_run_whole_build(self)
        THEN <<"clear_package_leftovers", "run_tests", "run_command sdist">>
        ELSE <<>>)
    \o (IF self.build_dags \/ should_run_whole_build(self)
        THEN <<"clear_dags_leftovers", "build_dags">>
        ELSE <<>>)
    \o (IF self.build_image \/ should_run_whole_build(self)
        THEN <<"clear_image_leftovers", "build_image">>
        ELSE <<>>)

\* The calls that can raise: the clear_*_leftovers functions only print and
\* call shutil.rmtree(..., ignore_errors=True).
Raising ==
    {"_valid_datetime", "run_tests", "run_command sdist", "build_dags", "build_image"}

InitBuild ==
    /\ pc = "input" /\ arg = NoArg /\ definition = NoDefinition /\ op = NoOp
    /\ context = NoContext /\ order = <<>> /\ idx = 0 /\ log = <<>>
    /\ returned = <<>> /\ calls = <<>> /\ asked = <<>> /\ error = NoError
    /\ visited = {} /\ first = NoFirst /\ start = NoStart
    /\ build = [NoBuild EXCEPT !.pc = "initialize_options"]

\* initialize_options, then the options of the command line are set.
SetOptions(validate_setup, package, dags, image) ==
    /\ build.pc = "initialize_options"
    /\ build' = [build EXCEPT !.pc = "options",
                              !.validate_project_setup = validate_setup,
                              !.build_package = package,
                              !.build_dags = dags,
                              !.build_image = image]
    /\ UNCHANGED <<pc, arg, definition, op, context, order, idx, log, returned,
                   calls, asked, error, visited, first, start>>

\* BuildCommand.run up to its first call
BuildRun ==
    /\ build.pc = "options"
    /\ build' = [build EXCEPT !.pc = IF build.validate_project_setup
                                     THEN "returned" ELSE "run"]
    /\ UNCHANGED <<pc, arg, definition, op, context, order, idx, log, returned,
                   calls, asked, error, visited, first, start>>

\* The next call of run, which returns or raises.
BuildCall(raises) ==
    /\ build.pc = "run"
    /\ Len(build.steps) < Len(run_calls(build))
    /\ LET call == run_calls(build)[Len(build.steps) + 1] IN
        /\ raises => call \in Raising
        /\ build' = [build EXCEPT !.steps = Append(@, call),
                                  !.pc = IF raises THEN "raised" ELSE "run",
                                  !.error = IF raises THEN call ELSE ""]
    /\ UNCHANGED <<pc, arg, definition, op, context, order, idx, log, returned,
                   calls, asked, error, visited, first, start>>

\* run returns after its last call
BuildReturn ==
    /\ build.pc = "run"
    /\ Len(build.steps) = Len(run_calls(build))
    /\ build' = [build EXCEPT !.pc = "returned"]
    /\ UNCHANGED <<pc, arg, definition, op, context, order, idx, log, returned,
                   calls, asked, error, visited, first, start>>

NextBuild ==
    \/ \E v \in BOOLEAN, p \in BOOLEAN, d \in BOOLEAN, i \in BOOLEAN :
           SetOptions(v, p, d, i)
    \/ BuildRun
    \/ \E raises \in BOOLEAN : BuildCall(raises)
    \/ BuildReturn

SpecBuild == InitBuild /\ [][NextBuild]_vars

(***************************************************************************)
(* Properties                                                              *)
(***************************************************************************)
\* The targets listed for node n in graph g.
Targets(g, n) == IF InDict(g, n) THEN Range(g.val[n]) ELSE {}

\* Every node that is a key or a dependency target of g.
GraphNodes(g) == Range(g.keys) \cup UNION {Targets(g, n) : n \in Nodes}

\* The nodes reached from the set S over at most k further edges.
RECURSIVE Closure(_, _, _)
Closure(g, S, k) ==
    IF k = 0 THEN S
    ELSE Closure(g, S \cup UNION {Targets(g, n) : n \in S}, k - 1)

\* n lies on a directed cycle: it is reached from itself over at least one edge.
OnCycle(g, n) == n \in Closure(g, Targets(g, n), MaxNodes)

HasCycle(g) == \E n \in Nodes : OnCycle(g, n)

\* x occurs before y in the sequence s.
Before(s, x, y) == \E i, j \in DOMAIN s : i < j /\ s[i] = x /\ s[j] = y

NoDuplicates(s) == \A i, j \in DOMAIN s : s[i] = s[j] => i = j

JobsOf(cs) == [i \in DOMAIN cs |-> cs[i].job]

\* Definition(dict) has just been called.
DefinitionOfDict == op.name = "Definition" /\ arg.type = "dict"

\* C1: Definition(dict) raises InvalidJobGraph exactly when the dict's graph
\* has a directed cycle (a self-loop included); for an acyclic graph, also one
\* where a node is reached over several paths or listed twice, it raises nothing.
C1_InvalidIffCycle ==
    DefinitionOfDict =>
        /\ (error.type = "InvalidJobGraph") <=> HasCycle(arg.dict)
        /\ ~HasCycle(arg.dict) => (pc = "definition" /\ error = NoError)
        /\ HasCycle(arg.dict) => pc = "failed"

\* A cycle over two or more nodes, no self-loop, is reported.
C1_Witness ==
    /\ DefinitionOfDict
    /\ error.type = "InvalidJobGraph"
    /\ \A n \in Nodes : n \notin Targets(arg.dict, n)

\* sequential_order / call_on_graph_nodes has returned on a Definition built
\* from a dict.
OrderOfDict == pc = "done" /\ op.name = "sequential_order" /\ arg.type = "dict"
CallsOfDict == pc = "done" /\ op.name = "call_on_graph_nodes" /\ arg.type = "dict"

\* C2: for every edge source -> target of an acyclic dict graph,
\* sequential_order has source before target, and call_on_graph_nodes calls
\* the consumer on a node only after it has called it on each of the node's
\* parents (the sources that list the node).
C2_ParentsFirst ==
    /\ OrderOfDict =>
           \A s \in Range(arg.dict.keys) : \A t \in Targets(arg.dict, s) :
               Before(returned, s, t)
    /\ CallsOfDict =>
           \A i \in DOMAIN calls : \A s \in Range(arg.dict.keys) :
               calls[i].job \in Targets(arg.dict, s) =>
                   \E j \in 1..(i - 1) : calls[j].job = s

\* A node reached over two paths (1 -> 2 -> 3 and 1 -> 3) comes last.
C2_Witness ==
    /\ OrderOfDict
    /\ arg.dict.keys = <<1, 2>>
    /\ arg.dict.val[1] = <<2, 3>> /\ arg.dict.val[2] = <<3>>
    /\ returned = <<1, 2, 3>>

\* C3: one call_on_graph_nodes calls the consumer exactly once on every node
\* that is a key or a dependency target and on nothing else; sequential_order
\* is a duplicate-free sequence of exactly the graph's nodes.
C3_EachNodeOnce ==
    /\ CallsOfDict =>
           /\ NoDuplicates(JobsOf(calls))
           /\ Range(JobsOf(calls)) = GraphNodes(arg.dict)
    /\ OrderOfDict =>
           /\ NoDuplicates(returned)
           /\ Range(returned) = GraphNodes(arg.dict)

\* A target that is not a key, listed by two sources, is called once.
C3_Witness ==
    /\ CallsOfDict
    /\ \E n \in Nodes :
           /\ ~InDict(arg.dict, n)
           /\ Cardinality({s \in Nodes : n \in Targets(arg.dict, s)}) = 2
           /\ Cardinality({i \in DOMAIN calls : calls[i].job = n}) = 1

\* Workflow(list) has been built from a list of one or more elements.
WorkflowOfList ==
    /\ arg.type = "list" /\ arg.via = "" /\ Len(arg.list) >= 1
    /\ pc \in {"done", "failed"}

\* C4: for a list of N >= 1 jobs given to Workflow, the chain graph maps
\* element i-1 to the list [element i] for i in 1..N-1 (a single element to the
\* empty list), and build_sequential_order returns N WorkflowJobs wrapping the
\* list's jobs in the list's order.
C4_ChainInOrder ==
    LET N == Len(arg.list)
        g == definition.job_graph
    IN  /\ (WorkflowOfList /\ op.name = "Workflow") =>
               /\ pc = "done"
               /\ g.keys = (IF N = 1 THEN <<1>> ELSE [i \in 1..(N - 1) |-> i])
               /\ \A i \in 1..N :
                      g.val[i] = (IF i < N THEN <<i + 1>> ELSE <<>>)
               /\ \A i \in 1..N :
                      definition.wrapped[i] = [type |-> arg.elems, id |-> arg.list[i]]
        /\ (WorkflowOfList /\ op.name = "sequential_order") =>
               /\ Len(returned) = N
               /\ \A i \in 1..N :
                      /\ definition.node_type = "WorkflowJob"
                      /\ definition.wrapped[returned[i]] =
                             [type |-> arg.elems, id |-> arg.list[i]]
                      /\ returned[i] = i

\* [A, B, C]: three jobs of different ids come back as [A, B, C].
C4_Witness ==
    /\ WorkflowOfList /\ op.name = "sequential_order"
    /\ arg.list = <<1, 2, 3>>
    /\ returned = <<1, 2, 3>>

\* The id of the job at node n: of the job a WorkflowJob wraps, or of the
\* plain job that is the node.
IdAt(def, n) == IF def.node_type = "Job" THEN n ELSE def.wrapped[n].id

\* Every node is a WorkflowJob wrapping a plain job (which has an id).
NodesWrapPlainJobs(def) ==
    \A n \in GraphNodes(def.job_graph) :
        def.node_type = "WorkflowJob" /\ def.wrapped[n].type = "Job"

\* The runtime argument is one _make_job_context accepts.
RuntimeAccepted(runtime) ==
    runtime.kind = "str" => _parse_runtime_str(runtime.str).ok

\* The execute calls of a run that went through all of jobs.
AllExecuted(jobs, ctx) == [i \in DOMAIN jobs |-> [job |-> jobs[i], context |-> ctx.id]]

RunDone == pc = "done" /\ op.name = "run"
RunJobDone == pc = "done" /\ op.name = "run_job"

\* C5: Workflow.run, on a workflow whose jobs all expose execute and none of
\* which raises, calls execute of every job once, in sequential order, with
\* one and the same JobContext, and returns without error.
C5_RunExecutesEveryJob ==
    (/\ RunDone
     /\ RuntimeAccepted(op.runtime)
     /\ definition.node_type = "WorkflowJob" => NodesWrapPlainJobs(definition)
     /\ \A i \in DOMAIN asked : asked[i].has_execute /\ ~asked[i].raised)
    => /\ error = NoError
       /\ log = AllExecuted(order, context)

\* The wrapped-job nodes whose job has the id asked for, in sequential order.
Matches(def, job_id) ==
    LET jobs == find_sequential_run_order(def.parental_map, {})
    IN  {i \in DOMAIN jobs : def.wrapped[jobs[i]].type = "Job"
                             /\ def.wrapped[jobs[i]].id = job_id}

FirstMatch(def, job_id) ==
    LET jobs == find_sequential_run_order(def.parental_map, {})
    IN  jobs[CHOOSE i \in Matches(def, job_id) :
                 \A j \in Matches(def, job_id) : i <= j]

HasJob(def, job_id) == def.node_type = "WorkflowJob" /\ Matches(def, job_id) # {}

C7_RaiseStopsRun ==
    (op.name = "run" /\ error.type = "JobError") =>
        /\ pc = "done"
        /\ idx \in DOMAIN order
        /\ error = Raise("JobError", order[idx])
        /\ log = AllExecuted(SubSeq(order, 1, idx), context)

\* The second of three jobs raises: one job ran before it, none after it.
C7_Witness ==
    /\ op.name = "run" /\ error.type = "JobError"
    /\ Len(order) = 3 /\ idx = 2 /\ Len(log) = 2

\* No job of the workflow has the id asked for.
UnknownJob(def, job_id) ==
    \A n \in GraphNodes(def.job_graph) : IdAt(def, n) # job_id

\* C8, as stated: run_job with an id that no job of the workflow has raises
\* 'job not found', and no execute is called.
C8_AsStated ==
    (RunJobDone /\ UnknownJob(definition, op.job_id)) =>
        error.type = "ValueError: Job not found" /\ log = <<>>

\* C8, amended: it raises and no execute is called; what it raises is 'job
\* not found' when the runtime argument is accepted (the context is built
\* first) and every node is a WorkflowJob wrapping a plain job.
C8_UnknownJobRaises ==
    (RunJobDone /\ UnknownJob(definition, op.job_id)) =>
        /\ log = <<>> /\ asked = <<>>
        /\ error # NoError
        /\ (RuntimeAccepted(op.runtime) /\ NodesWrapPlainJobs(definition))
               => error.type = "ValueError: Job not found"

\* Three jobs, none with the id asked for, an accepted runtime.
C8_Witness ==
    /\ RunJobDone /\ UnknownJob(definition, op.job_id)
    /\ arg.type = "list" /\ arg.via = "" /\ Len(arg.list) = 3
    /\ error.type = "ValueError: Job not found"

MakeJobContextDone == pc = "done" /\ op.name = "_make_job_context"

\* The text has no time of day.
DateOnly(text) == \A i \in DOMAIN text : text[i] # ":"

MidnightOf(d) == d.hour = 0 /\ d.minute = 0 /\ d.second = 0

\* C9, as stated: for every runtime _make_job_context accepts, runtime_as_str
\* is the context's runtime rendered as "%Y-%m-%d %H:%M:%S".
C9_AsStated ==
    (MakeJobContextDone /\ error = NoError) =>
        context.runtime_as_str = strftime(context.runtime, RUNTIME_FORMATS[1])

\* C9, amended: that holds for None and for a timestamp; for a string,
\* runtime_as_str is the string as given (a date-only string yields a runtime
\* at midnight and a runtime_as_str without a time part).
C9_RuntimeAsStr ==
    (MakeJobContextDone /\ error = NoError) =>
        IF op.runtime.kind = "str"
        THEN /\ context.runtime_as_str = op.runtime.str
             /\ DateOnly(op.runtime.str) =>
                    (MidnightOf(context.runtime) /\ DateOnly(context.runtime_as_str))
        ELSE context.runtime_as_str = strftime(context.runtime, RUNTIME_FORMATS[1])

\* A date-only string is accepted.
C9_Witness ==
    /\ MakeJobContextDone /\ error = NoError
    /\ op.runtime.kind = "str" /\ DateOnly(op.runtime.str)
    /\ context.runtime.day = 27

WorkflowCalled == op.name = "Workflow"

InvalidArgument == pc = "failed" /\ error.type = "ValueError: Invalid argument"

\* C10, as stated: Workflow construction succeeds for a list, an acyclic
\* mapping or a Definition, and raises the malformed-input error exactly when
\* the argument is none of the three.
C10_AsStated ==
    WorkflowCalled =>
        /\ InvalidArgument <=> (arg.via = "" /\ arg.type = "other")
        /\ (arg.via = "Definition" \/ arg.type = "list"
              \/ (arg.type = "dict" /\ ~HasCycle(arg.dict))) => pc = "done"

\* C10, amended: it succeeds for a list and for a Definition (kept as it is)
\* and raises the malformed-input error for everything else, a mapping
\* included; a mapping is accepted by Definition only.
C10_WorkflowArgument ==
    WorkflowCalled =>
        /\ InvalidArgument <=> (arg.via = "" /\ arg.type # "list")
        /\ ~InvalidArgument => (pc = "done" /\ error = NoError)
        /\ arg.via = "Definition" =>
               definition = Definition(arg, OwnWrapped(arg)).definition

\* Workflow(dict) of an acyclic, non-empty dict raises the malformed-input error.
C10_Witness ==
    /\ WorkflowCalled /\ InvalidArgument
    /\ arg.via = "" /\ arg.type = "dict"
    /\ arg.dict.keys # <<>> /\ ~HasCycle(arg.dict)

C12_FreshTraversal ==
    [][/\ pc \in {"ready", "run", "done"} => definition' = definition
       /\ (op'.name = "sequential_order" /\ pc' = "done") =>
              /\ returned' = first'.order
              /\ NoDuplicates(returned')
              /\ Range(returned') = GraphNodes(definition'.job_graph)]_vars

\* sequential_order called on a three-node graph after an
\* earlier traversal of the same Workflow, which left its visited set full.
C12_Witness ==
    /\ op.name = "sequential_order" /\ pc = "done"
    /\ op.left = GraphNodes(definition.job_graph)
    /\ Cardinality(op.left) = 3
    /\ first.called /\ returned = first.order /\ Len(returned) = 3

\* The formats of RUNTIME_FORMATS that parse the text s, by position.
ParsingFormats(s) ==
    {k \in DOMAIN RUNTIME_FORMATS : strptime(s, RUNTIME_FORMATS[k]).ok}

\* The first of them.
FirstParsingFormat(s) ==
    CHOOSE k \in ParsingFormats(s) : \A j \in ParsingFormats(s) : k <= j

\* C13: run and run_job called with a runtime string that neither format
\* parses end with an error and without any job handed to _execute_job or
\* executed; with a string that some format parses, the context's runtime is
\* what the first such format, in the order of RUNTIME_FORMATS, parses it to.
C13_RuntimeStringParsed ==
    (op.name \in {"run", "run_job"} /\ op.runtime.kind = "str") =>
        IF ParsingFormats(op.runtime.str) = {}
        THEN /\ pc = "done" /\ error # NoError /\ error.type # "JobError"
             /\ log = <<>> /\ asked = <<>>
        ELSE context.runtime =
                 strptime(op.runtime.str,
                          RUNTIME_FORMATS[FirstParsingFormat(op.runtime.str)]).value

\* run on a workflow of three jobs with "2020-06-27T15:00:00", which neither
\* format parses.
C13_Witness ==
    /\ op.name = "run" /\ pc = "done"
    /\ op.runtime.kind = "str"
    /\ Len(op.runtime.str) = 19 /\ op.runtime.str[11] = "T"
    /\ ParsingFormats(op.runtime.str) = {}
    /\ Len(definition.parental_map.keys) = 3
    /\ error.type = "NameError" /\ log = <<>>

\* C14: whenever Definition(dict) raises InvalidJobGraph, the node the error
\* names is a node of the graph that reaches itself over one or more edges,
\* whatever the order of the keys and of the dependency sequences.
C14_NamedNodeOnCycle ==
    (DefinitionOfDict /\ error.type = "InvalidJobGraph") =>
        /\ error.job \in GraphNodes(arg.dict)
        /\ OnCycle(arg.dict, error.job)

\* A cycle is reported in a graph that also has a key off every cycle, which
\* is validated before the cycle is entered.
C14_Witness ==
    /\ DefinitionOfDict /\ error.type = "InvalidJobGraph"
    /\ OnCycle(arg.dict, error.job)
    /\ error.job \notin Targets(arg.dict, error.job)
    /\ ~OnCycle(arg.dict, arg.dict.keys[1])
    /\ Len(arg.dict.val[arg.dict.keys[1]]) > 0

\* How many times x occurs in the sequence s.
Count(s, x) == Cardinality({i \in DOMAIN s : s[i] = x})

\* The edges <<source, target>> of the acyclic graph g in the order a
\* depth-first walk over the keys, each key's sequence left to right, comes
\* upon them: path is the walk's current path as <<node, next index>> frames,
\* k the next key to start from, seen the keys entered so far.
RECURSIVE Discovered(_, _, _, _, _)
Discovered(g, k, path, seen, edges) ==
    IF path = <<>>
    THEN IF k > Len(g.keys) THEN edges
         ELSE IF g.keys[k] \in seen THEN Discovered(g, k + 1, path, seen, edges)
         ELSE Discovered(g, k + 1, <<[node |-> g.keys[k], next |-> 1]>>,
                         seen \cup {g.keys[k]}, edges)
    ELSE LET top == path[Len(path)]
             below == SubSeq(path, 1, Len(path) - 1)
         IN  IF top.next > Len(g.val[top.node])
             THEN Discovered(g, k, below, seen, edges)
             ELSE LET d == g.val[top.node][top.next]
                      on == Append(below, [top EXCEPT !.next = @ + 1])
                      found == Append(edges, <<top.node, d>>)
                  IN  IF InDict(g, d) /\ d \notin seen
                      THEN Discovered(g, k, Append(on, [node |-> d, next |-> 1]),
                                      seen \cup {d}, found)
                      ELSE Discovered(g, k, on, seen, found)

\* The sources of the edges into n, in the order the edges are discovered.
RECURSIVE SourcesInto(_, _)
SourcesInto(edges, n) ==
    IF edges = <<>> THEN <<>>
    ELSE (IF Head(edges)[2] = n THEN <<Head(edges)[1]>> ELSE <<>>)
             \o SourcesInto(Tail(edges), n)

\* The parent list of n is as the graph g prescribes.
ParentsAsGraph(g, n, parents) ==
    /\ \A s \in Nodes :
           Count(parents, s) = IF InDict(g, s) THEN Count(g.val[s], n) ELSE 0
    /\ Range(parents) \subseteq Nodes
    /\ parents = SourcesInto(Discovered(g, 1, <<>>, {}, <<>>), n)
    /\ (\A s \in Nodes : n \notin Targets(g, s)) => parents = <<>>

\* C15: for an acyclic dict graph the parental map has an entry for exactly
\* the keys and dependency targets; the parent list of n holds each source s
\* as many times as n occurs in s's sequence and nothing else, in the order
\* the edges are discovered, and is empty for a node without incoming edge;
\* the consumer of call_on_graph_nodes receives that list with n.
C15_ParentalMap ==
    (arg.type = "dict" /\ ~HasCycle(arg.dict) /\ pc \notin {"input", "failed"}) =>
        /\ Range(definition.parental_map.keys) = GraphNodes(arg.dict)
        /\ NoDuplicates(definition.parental_map.keys)
        /\ \A n \in GraphNodes(arg.dict) :
               ParentsAsGraph(arg.dict, n, definition.parental_map.val[n])
        /\ \A i \in DOMAIN calls :
               ParentsAsGraph(arg.dict, calls[i].job, calls[i].dependencies)

\* call_on_graph_nodes on a graph where one source lists a node twice and a
\* second source lists it too, and another node has no incoming edge.
C15_Witness ==
    /\ CallsOfDict /\ ~HasCycle(arg.dict)
    /\ \E i \in DOMAIN calls :
           /\ Len(calls[i].dependencies) = 3
           /\ Cardinality(Range(calls[i].dependencies)) = 2
    /\ \E i \in DOMAIN calls : calls[i].dependencies = <<>>

\* t truncated to a multiple of unit seconds, the microsecond dropped.
Truncated(seconds, unit) ==
    [seconds |-> seconds - (seconds % unit), microsecond |-> 0]

\* C16: hourly_start_time returns start_time minus the local UTC offset
\* truncated to the hour, and daily_start_time returns start_time minus the
\* local UTC offset truncated to the day.
C16_StartTimeTruncated ==
    /\ start.called = "hourly_start_time" =>
           start.result = Truncated(start.start_time.seconds - start.utcoffset,
                                    SecondsPerHour)
    /\ start.called = "daily_start_time" =>
           start.result = Truncated(start.start_time.seconds - start.utcoffset,
                                    SecondsPerDay)

\* C17: when a Definition is built directly from a list of WorkflowJobs and
\* construction does not raise, sequential_order has as many entries as the
\* list has elements.
C17_NoElementDropped ==
    (/\ op.name = "sequential_order" /\ pc = "done"
     /\ arg.type = "list" /\ arg.elems = "WorkflowJob" /\ arg.via = "Definition") =>
        Len(returned) = Len(arg.list)

\* The calls of each build phase, in order.
PhaseCalls ==
    [package |-> <<"clear_package_leftovers", "run_tests", "run_command sdist">>,
     dags    |-> <<"clear_dags_leftovers", "build_dags">>,
     image   |-> <<"clear_image_leftovers", "build_image">>]

\* The phases the options select: all three when no build_* flag is set,
\* otherwise those whose flag is set.
PhaseSelected(phase) ==
    LET none == ~build.build_package /\ ~build.build_dags /\ ~build.build_image
        flag == [package |-> build.build_package, dags |-> build.build_dags,
                 image |-> build.build_image]
    IN  none \/ flag[phase]

\* The calls of the selected phases: package, then dags, then image.
SelectedCalls ==
    (IF PhaseSelected("package") THEN PhaseCalls.package ELSE <<>>)
        \o (IF PhaseSelected("dags") THEN PhaseCalls.dags ELSE <<>>)
        \o (IF PhaseSelected("image") THEN PhaseCalls.image ELSE <<>>)

IsPrefix(s, t) == Len(s) <= Len(t) /\ s = SubSeq(t, 1, Len(s))

BuildEnded == build.pc \in {"returned", "raised"}

\* The calls run made that belong to a phase.
PhaseCallsMade == SelectSeq(build.steps, LAMBDA c : c # "_valid_datetime")

\* C18 as stated: with validate_project_setup no phase runs; otherwise, unless
\* a phase has raised, exactly the selected phases run, in the order package,
\* dags, image; a phase that raises prevents everything after it.
C18_AsStated ==
    BuildEnded =>
        IF build.validate_project_setup THEN PhaseCallsMade = <<>>
        ELSE /\ IsPrefix(PhaseCallsMade, SelectedCalls)
             /\ build.error \notin (Raising \ {"_valid_datetime"}) =>
                    PhaseCallsMade = SelectedCalls
             /\ build.error \in (Raising \ {"_valid_datetime"}) =>
                    PhaseCallsMade[Len(PhaseCallsMade)] = build.error

\* C18: with validate_project_setup run makes no call at all; otherwise it
\* first validates start_time and, when that raises, runs no phase; when it
\* does not, the selected phases run in the order package, dags, image up to
\* the first call that raises, and all of them when none raises.
C18_BuildPhases ==
    IF build.validate_project_setup
    THEN build.steps = <<>> /\ build.pc # "raised"
    ELSE /\ IsPrefix(build.steps, <<"_valid_datetime">> \o SelectedCalls)
         /\ build.pc = "returned" =>
                build.steps = <<"_valid_datetime">> \o SelectedCalls
         /\ build.pc = "raised" =>
                /\ build.steps # <<>>
                /\ build.steps[Len(build.steps)] = build.error
                /\ build.error = "_valid_datetime" => PhaseCallsMade = <<>>

\* build_dags and build_image are set, build_package is not: run returns
\* after the dags and the image phase, the package phase left out.
C18_Witness ==
    /\ build.pc = "returned" /\ ~build.validate_project_setup
    /\ ~build.build_package /\ build.build_dags /\ build.build_image
    /\ PhaseCallsMade = PhaseCalls.dags \o PhaseCalls.image


=============================================================================
